---- MODULE Spec2Model ----
(***************************************************************************)
(* Model of src/main.rs: the three file-opening routines of the            *)
(* error-handling walkthrough.                                             *)
(*   main                      open hello.txt, create it on NotFound,      *)
(*                             panic otherwise; then open().unwrap() and   *)
(*                             open().expect(..)                           *)
(*   read_username_from_file   open + read_to_string with explicit match   *)
(*   read_username_from_file2  the same with the ? operator                *)
(* The file system is a map from paths to files (bytes + read permission); *)
(* a run is stepped line by line, the handles it owns are tracked so that  *)
(* scope exit and unwinding release them.                                  *)
(***************************************************************************)
EXTENDS Integers, Sequences, FiniteSets, TLC

VARIABLES
    disk,             \* path -> file (exists, content bytes, readable)
    dirWritable,      \* may a new entry be created in the working directory
    newFileReadable,  \* does the creation mode (0666 & ~umask) leave a new file readable
    fn,               \* routine being run: "none", "main", "ruf", "ruf2"
    pc,               \* position in that routine
    f,                \* the Result bound by `let f = File::open(..)` (lines 33, 77)
    s,                \* the String buffer (lines 84, 99)
    frame,            \* handles owned by the live bindings of the routine, oldest first
    openFiles,        \* descriptor -> [path, mode] of every open handle
    opened,           \* descriptors this run obtained
    closed,           \* descriptors this run released, in order
    ops,              \* file-system calls of this run, with their outcomes
    ret,              \* how the run ended
    disk0,            \* disk when the run started
    hist              \* finished runs, oldest first

vars == <<disk, dirWritable, newFileReadable, fn, pc, f, s, frame, openFiles,
          opened, closed, ops, ret, disk0, hist>>

\* ---- bounds ----
MaxLen == 2
MaxCalls == 3

\* ---- values ----
HelloTxt == "hello.txt"
OtherTxt == "other.txt"
Paths == {HelloTxt, OtherTxt}

\* 'h', and the two bytes of U+00E9 (0xC3 0xA9)
Bytes == {104, 195, 169}

RECURSIVE SeqsUpTo(_, _)
SeqsUpTo(S, n) ==
    IF n = 0 THEN {<<>>}
    ELSE LET shorter == SeqsUpTo(S, n - 1)
         IN  shorter \cup {Append(q, x) : q \in {r \in shorter : Len(r) = n - 1}, x \in S}

Contents == SeqsUpTo(Bytes, MaxLen)

NoFile == [exists |-> FALSE, content |-> <<>>, readable |-> FALSE]
FileOf(c, r) == [exists |-> TRUE, content |-> c, readable |-> r]

NoValue == [tag |-> "None", text |-> <<>>, kind |-> "none", msg |-> ""]
Ok(text) == [tag |-> "Ok", text |-> text, kind |-> "none", msg |-> ""]
OkFile == [tag |-> "Ok", text |-> <<>>, kind |-> "none", msg |-> ""]
Err(kind) == [tag |-> "Err", text |-> <<>>, kind |-> kind, msg |-> ""]
Unit == [tag |-> "Unit", text |-> <<>>, kind |-> "none", msg |-> ""]
Panicked(kind, msg) == [tag |-> "Panic", text |-> <<>>, kind |-> kind, msg |-> msg]

Range(q) == {q[i] : i \in 1..Len(q)}

RECURSIVE Reverse(_)
Reverse(q) == IF q = <<>> THEN <<>> ELSE Append(Reverse(Tail(q)), Head(q))

\* ---- std::fs / std::io as the routines use them ----

\* File::open(path): read-only open of an existing file
OpenResult(d, p) ==
    IF ~d[p].exists THEN Err("NotFound")
    ELSE IF ~d[p].readable THEN Err("PermissionDenied")
    ELSE OkFile

\* File::create(path): write-only open that creates the file or truncates it
CreateResult(d, p, dw) ==
    IF d[p].exists \/ dw THEN OkFile ELSE Err("PermissionDenied")

DiskAfterCreate(d, p, dw, nfr) ==
    IF d[p].exists THEN [d EXCEPT ![p].content = <<>>]
    ELSE IF dw THEN [d EXCEPT ![p] = FileOf(<<>>, nfr)]
    ELSE d

\* the lowest free descriptor
NewFd(of) ==
    CHOOSE n \in 1..(Cardinality(DOMAIN of) + 1) :
        n \notin DOMAIN of /\ \A m \in 1..(n - 1) : m \in DOMAIN of

Utf8Width(b) ==
    IF b < 128 THEN 1
    ELSE IF b \in 194..223 THEN 2
    ELSE IF b \in 224..239 THEN 3
    ELSE IF b \in 240..244 THEN 4
    ELSE 0

IsCont(b) == b \in 128..191

SecondOk(b1, b2) ==
    CASE b1 = 224 -> b2 \in 160..191
      [] b1 = 237 -> b2 \in 128..159
      [] b1 = 240 -> b2 \in 144..191
      [] b1 = 244 -> b2 \in 128..143
      [] OTHER -> IsCont(b2)

CodePoint(bs, w) ==
    CASE w = 1 -> bs[1]
      [] w = 2 -> (bs[1] - 192) * 64 + (bs[2] - 128)
      [] w = 3 -> (bs[1] - 224) * 4096 + (bs[2] - 128) * 64 + (bs[3] - 128)
      [] OTHER -> (bs[1] - 240) * 262144 + (bs[2] - 128) * 4096
                  + (bs[3] - 128) * 64 + (bs[4] - 128)

\* bytes -> text (a sequence of code points), or not valid UTF-8
RECURSIVE Utf8Decode(_)
Utf8Decode(bs) ==
    IF bs = <<>> THEN [ok |-> TRUE, text |-> <<>>]
    ELSE LET w == Utf8Width(bs[1])
         IN  IF \/ w = 0
                \/ Len(bs) < w
                \/ (w >= 2 /\ ~SecondOk(bs[1], bs[2]))
                \/ \E i \in 3..w : ~IsCont(bs[i])
             THEN [ok |-> FALSE, text |-> <<>>]
             ELSE LET rest == Utf8Decode(SubSeq(bs, w + 1, Len(bs)))
                  IN  IF rest.ok
                      THEN [ok |-> TRUE, text |-> <<CodePoint(bs, w)>> \o rest.text]
                      ELSE [ok |-> FALSE, text |-> <<>>]

\* read_to_string(&mut buf) on handle h: the outcome and the buffer afterwards
ReadToString(d, h, buf) ==
    IF h.mode # "r" THEN [res |-> Err("Uncategorized"), buf |-> buf]
    ELSE LET dec == Utf8Decode(d[h.path].content)
         IN  IF dec.ok THEN [res |-> Ok(<<>>), buf |-> buf \o dec.text]
             ELSE [res |-> Err("InvalidData"), buf |-> buf]

\* a conversion that keeps no kind
FromIoErrorLossy(e) == Err("Other")

\* impl From<io::Error> for io::Error, applied by `?`
FromIoError(e) == e

\* the oldest binding is forgotten instead of dropped
DroppedLeak(fr) == IF fr = <<>> THEN <<>> ELSE Reverse(Tail(fr))

\* the handles released when the bindings of a scope die: newest binding first
Dropped(fr) == Reverse(fr)

\* ---- the state machine ----

Init ==
    /\ disk \in {[p \in Paths |-> IF p = HelloTxt THEN h ELSE FileOf(<<104>>, TRUE)] :
                    h \in {NoFile} \cup {FileOf(c, r) : c \in Contents, r \in BOOLEAN}}
    /\ dirWritable \in BOOLEAN
    /\ newFileReadable \in BOOLEAN
    /\ fn = "none"
    /\ pc = "idle"
    /\ f = NoValue
    /\ s = <<>>
    /\ frame = <<>>
    /\ openFiles = <<>>
    /\ opened = <<>>
    /\ closed = <<>>
    /\ ops = <<>>
    /\ ret = NoValue
    /\ disk0 = disk
    /\ hist = <<>>

Entry(g) == CASE g = "main" -> "m33" [] g = "ruf" -> "r77" [] OTHER -> "q96"

OpRec(op, r) == [op |-> op, res |-> IF r.tag = "Ok" THEN "Ok" ELSE r.kind]

\* a routine is entered: fresh locals, nothing opened yet
Call(g) ==
    /\ pc \in {"idle", "done", "panicked"}
    /\ Len(hist) < MaxCalls
    /\ fn' = g
    /\ pc' = Entry(g)
    /\ f' = NoValue
    /\ s' = <<>>
    /\ frame' = <<>>
    /\ opened' = <<>>
    /\ closed' = <<>>
    /\ ops' = <<>>
    /\ ret' = NoValue
    /\ disk0' = disk
    /\ UNCHANGED <<disk, dirWritable, newFileReadable, openFiles, hist>>

\* a handle is obtained (mode "r" or "w") or not (mode ""), and a binding owns it
Acquire(mode) ==
    IF mode = ""
    THEN UNCHANGED <<openFiles, frame, opened>>
    ELSE LET fd == NewFd(openFiles)
         IN  /\ openFiles' = openFiles @@ (fd :> [path |-> HelloTxt, mode |-> mode])
             /\ frame' = Append(frame, fd)
             /\ opened' = Append(opened, fd)

\* the routine goes on to the next line
Step(newPc, newF, newS, newOps, newDisk, mode) ==
    /\ pc' = newPc
    /\ f' = newF
    /\ s' = newS
    /\ ops' = newOps
    /\ disk' = newDisk
    /\ Acquire(mode)
    /\ UNCHANGED <<dirWritable, newFileReadable, fn, closed, ret, disk0, hist>>

\* the routine ends (return, or panic and unwind): its bindings die, and the
\* handles they own are released
Exit(toPc, value, newOps) ==
    LET gone == Dropped(frame)
        nowClosed == closed \o gone
    IN  /\ pc' = toPc
        /\ ret' = value
        /\ ops' = newOps
        /\ closed' = nowClosed
        /\ openFiles' = [k \in DOMAIN openFiles \ Range(gone) |-> openFiles[k]]
        /\ frame' = <<>>
        /\ f' = NoValue
        /\ hist' = Append(hist, [fn |-> fn, disk0 |-> disk0, disk1 |-> disk,
                                 ret |-> value, ops |-> newOps,
                                 opened |-> opened, closed |-> nowClosed,
                                 left |-> DOMAIN openFiles \ Range(gone)])
        /\ UNCHANGED <<disk, dirWritable, newFileReadable, fn, s, opened, disk0>>

Mode(r) == IF r.tag = "Ok" THEN "r" ELSE ""

\* ---- main ----

\* File::create in the place of File::open
Main_OpenCreates ==
    /\ fn = "main" /\ pc = "m33"
    /\ LET r == CreateResult(disk, HelloTxt, dirWritable)
       IN  Step("m36", r, s, Append(ops, OpRec("create", r)),
                DiskAfterCreate(disk, HelloTxt, dirWritable, newFileReadable),
                IF r.tag = "Ok" THEN "w" ELSE "")

\* line 33: let f = File::open("hello.txt")
Main_Open ==
    /\ fn = "main" /\ pc = "m33"
    /\ LET r == OpenResult(disk, HelloTxt)
       IN  Step("m36", r, s, Append(ops, OpRec("open", r)), disk, Mode(r))

\* the opened file is truncated by a create
Main_MatchOkTruncates ==
    /\ fn = "main" /\ pc = "m36"
    /\ f.tag = "Ok"
    /\ LET r == CreateResult(disk, HelloTxt, dirWritable)
       IN  Step("m62", NoValue, s, Append(ops, OpRec("create", r)),
                DiskAfterCreate(disk, HelloTxt, dirWritable, newFileReadable), "")

\* lines 36-37: Ok(file) => file
Main_MatchOk ==
    /\ fn = "main" /\ pc = "m36"
    /\ f.tag = "Ok"
    /\ Step("m62", NoValue, s, ops, disk, "")

\* no arm for NotFound: it panics like any other kind
Main_MatchNotFoundPanics ==
    /\ fn = "main" /\ pc = "m36"
    /\ f.tag = "Err" /\ f.kind = "NotFound"
    /\ Exit("panicked", Panicked(f.kind, "Problem opening the file"), ops)

\* lines 38-40: Err(error), error.kind() is NotFound => File::create("hello.txt")
Main_MatchNotFound ==
    /\ fn = "main" /\ pc = "m36"
    /\ f.tag = "Err" /\ f.kind = "NotFound"
    /\ LET r == CreateResult(disk, HelloTxt, dirWritable)
       IN  Step("m41", r, s, Append(ops, OpRec("create", r)),
                DiskAfterCreate(disk, HelloTxt, dirWritable, newFileReadable),
                IF r.tag = "Ok" THEN "w" ELSE "")

\* line 41: Ok(fc) => fc
Main_CreateOk ==
    /\ fn = "main" /\ pc = "m41"
    /\ f.tag = "Ok"
    /\ Step("m62", NoValue, s, ops, disk, "")

\* line 42: Err(e) => panic!("Problem creating the file: {:?}", e)
Main_CreatePanic ==
    /\ fn = "main" /\ pc = "m41"
    /\ f.tag = "Err"
    /\ Exit("panicked", Panicked(f.kind, "Problem creating the file"), ops)

\* the kind is not looked at: any failed open leads to a create
Main_MatchOtherCreates ==
    /\ fn = "main" /\ pc = "m36"
    /\ f.tag = "Err" /\ f.kind # "NotFound"
    /\ LET r == CreateResult(disk, HelloTxt, dirWritable)
       IN  Step("m41", r, s, Append(ops, OpRec("create", r)),
                DiskAfterCreate(disk, HelloTxt, dirWritable, newFileReadable),
                IF r.tag = "Ok" THEN "w" ELSE "")

\* line 44: other_error => panic!("Problem opening the file: {:?}", other_error)
Main_MatchOther ==
    /\ fn = "main" /\ pc = "m36"
    /\ f.tag = "Err" /\ f.kind # "NotFound"
    /\ Exit("panicked", Panicked(f.kind, "Problem opening the file"), ops)

\* the failure of the open is swallowed
OpenOrContinue(newPc, msg) ==
    LET r == OpenResult(disk, HelloTxt)
    IN  Step(newPc, NoValue, s, Append(ops, OpRec("open", r)), disk, Mode(r))

\* Result::unwrap / Result::expect on a File::open: the file, or a panic
OpenOrPanic(newPc, msg) ==
    LET r == OpenResult(disk, HelloTxt)
        newOps == Append(ops, OpRec("open", r))
    IN  IF r.tag = "Ok"
        THEN Step(newPc, NoValue, s, newOps, disk, "r")
        ELSE Exit("panicked", Panicked(r.kind, msg), newOps)

\* line 62: let f = File::open("hello.txt").unwrap()
Main_Unwrap ==
    /\ fn = "main" /\ pc = "m62"
    /\ OpenOrPanic("m65", "called Result::unwrap() on an Err value")

\* line 65: let f = File::open("hello.txt").expect("Failed to open hello.txt")
Main_Expect ==
    /\ fn = "main" /\ pc = "m65"
    /\ OpenOrPanic("m66", "Failed to open hello.txt")

\* line 66: the end of main
Main_Return ==
    /\ fn = "main" /\ pc = "m66"
    /\ Exit("done", Unit, ops)

\* ---- read_username_from_file ----

\* line 77: let f = File::open("hello.txt")
Ruf_Open ==
    /\ fn = "ruf" /\ pc = "r77"
    /\ LET r == OpenResult(disk, HelloTxt)
       IN  Step("r79", r, s, Append(ops, OpRec("open", r)), disk, Mode(r))

\* lines 79-80: Ok(file) => file
Ruf_MatchOk ==
    /\ fn = "ruf" /\ pc = "r79"
    /\ f.tag = "Ok"
    /\ Step("r84", NoValue, s, ops, disk, "")

\* the failed open is turned into an empty result
Ruf_MatchErrDefault ==
    /\ fn = "ruf" /\ pc = "r79"
    /\ f.tag = "Err"
    /\ Exit("done", Ok(<<>>), ops)

\* line 81: Err(e) => return Err(e)
Ruf_MatchErr ==
    /\ fn = "ruf" /\ pc = "r79"
    /\ f.tag = "Err"
    /\ Exit("done", Err(f.kind), ops)

\* line 84: let mut s = String::new()
Ruf_NewString ==
    /\ fn = "ruf" /\ pc = "r84"
    /\ Step("r86", f, <<>>, ops, disk, "")

\* line 86: f.read_to_string(&mut s)
Ruf_Read ==
    /\ fn = "ruf" /\ pc = "r86"
    /\ LET rd == ReadToString(disk, openFiles[frame[Len(frame)]], s)
       IN  Step("r87", rd.res, rd.buf, Append(ops, OpRec("read", rd.res)), disk, "")

\* line 87: Ok(_) => Ok(s)
Ruf_ReadOk ==
    /\ fn = "ruf" /\ pc = "r87"
    /\ f.tag = "Ok"
    /\ Exit("done", Ok(s), ops)

\* the failed read panics
Ruf_ReadErrPanics ==
    /\ fn = "ruf" /\ pc = "r87"
    /\ f.tag = "Err"
    /\ Exit("panicked", Panicked(f.kind, "called Result::unwrap() on an Err value"), ops)

\* line 88: Err(e) => Err(e)
Ruf_ReadErr ==
    /\ fn = "ruf" /\ pc = "r87"
    /\ f.tag = "Err"
    /\ Exit("done", Err(f.kind), ops)

\* ---- read_username_from_file2 ----

\* line 96: let mut f = File::open("hello.txt")?
Ruf2_Open ==
    /\ fn = "ruf2" /\ pc = "q96"
    /\ LET r == OpenResult(disk, HelloTxt)
           newOps == Append(ops, OpRec("open", r))
       IN  IF r.tag = "Ok"
           THEN Step("q99", NoValue, s, newOps, disk, "r")
           ELSE Exit("done", FromIoError(r), newOps)

\* line 99: let mut s = String::new()
Ruf2_NewString ==
    /\ fn = "ruf2" /\ pc = "q99"
    /\ Step("q100", f, <<>>, ops, disk, "")

\* line 100: f.read_to_string(&mut s)?
Ruf2_Read ==
    /\ fn = "ruf2" /\ pc = "q100"
    /\ LET rd == ReadToString(disk, openFiles[frame[Len(frame)]], s)
           newOps == Append(ops, OpRec("read", rd.res))
       IN  IF rd.res.tag = "Ok"
           THEN Step("q101", NoValue, rd.buf, newOps, disk, "")
           ELSE Exit("done", FromIoError(rd.res), newOps)

\* a fresh String is returned, not the buffer
Ruf2_OkEmpty ==
    /\ fn = "ruf2" /\ pc = "q101"
    /\ Exit("done", Ok(<<>>), ops)

\* line 101: Ok(s)
Ruf2_Ok ==
    /\ fn = "ruf2" /\ pc = "q101"
    /\ Exit("done", Ok(s), ops)

Next ==
    \/ \E g \in {"main", "ruf", "ruf2"} : Call(g)
    \/ Main_Open
    \/ Main_MatchOk
    \/ Main_MatchNotFound
    \/ Main_CreateOk
    \/ Main_CreatePanic
    \/ Main_MatchOther
    \/ Main_Unwrap
    \/ Main_Expect
    \/ Main_Return
    \/ Ruf_Open
    \/ Ruf_MatchOk
    \/ Ruf_MatchErr
    \/ Ruf_NewString
    \/ Ruf_Read
    \/ Ruf_ReadOk
    \/ Ruf_ReadErr
    \/ Ruf2_Open
    \/ Ruf2_NewString
    \/ Ruf2_Read
    \/ Ruf2_Ok

Spec == Init /\ [][Next]_vars

\* ---- vocabulary of the properties ----

CodePoints == {104, 233}

\* text -> bytes (str::as_bytes)
RECURSIVE Utf8Encode(_)
Utf8Encode(text) ==
    IF text = <<>> THEN <<>>
    ELSE LET c == Head(text)
             first == IF c < 128 THEN <<c>>
                      ELSE IF c < 2048 THEN <<192 + (c \div 64), 128 + (c % 64)>>
                      ELSE IF c < 65536
                           THEN <<224 + (c \div 4096), 128 + ((c \div 64) % 64), 128 + (c % 64)>>
                      ELSE <<240 + (c \div 262144), 128 + ((c \div 4096) % 64),
                             128 + ((c \div 64) % 64), 128 + (c % 64)>>
         IN  first \o Utf8Encode(Tail(text))

\* the byte strings that are the encoding of some text
TextBytes == {Utf8Encode(x) : x \in SeqsUpTo(CodePoints, MaxLen)}

Runs == {hist[i] : i \in 1..Len(hist)}
RunsOf(G) == {r \in Runs : r.fn \in G}
Strict == {"ruf", "ruf2"}

Hello0(r) == r.disk0[HelloTxt]
Hello1(r) == r.disk1[HelloTxt]
ReadableText(file) == file.exists /\ file.readable /\ file.content \in TextBytes
Did(r, op, res) == \E i \in 1..Len(r.ops) : r.ops[i] = [op |-> op, res |-> res]
DidOp(r, op) == \E i \in 1..Len(r.ops) : r.ops[i].op = op
Count(q, x) == Cardinality({i \in 1..Len(q) : q[i] = x})

OpeningMsg == "Problem opening the file"
CreatingMsg == "Problem creating the file"
UnwrapMsg == "called Result::unwrap() on an Err value"
ExpectMsg == "Failed to open hello.txt"

\* ---- C1 ----

\* C1 as stated: whenever hello.txt exists, is readable and holds the text c,
\* every routine (main, read_username_from_file, read_username_from_file2)
\* ends by returning Ok(c).
C1_AsStated ==
    \A r \in Runs :
        ReadableText(Hello0(r)) =>
            r.ret.tag = "Ok" /\ Utf8Encode(r.ret.text) = Hello0(r).content

\* C1 amended: whenever hello.txt exists, is readable and holds the text c,
\* read_username_from_file and read_username_from_file2 return Ok(c) (the
\* returned text encodes to exactly the file's bytes); main neither panics nor
\* returns an Err, but it returns unit: it never reads the file.
C1_StrictReturnsContent ==
    \A r \in Runs :
        ReadableText(Hello0(r)) =>
            IF r.fn \in Strict
            THEN r.ret.tag = "Ok" /\ Utf8Encode(r.ret.text) = Hello0(r).content
            ELSE r.ret = Unit /\ ~DidOp(r, "read")

C1_Witness ==
    /\ \E r \in RunsOf({"ruf"}) : ReadableText(Hello0(r)) /\ r.ret = Ok(<<233>>)
    /\ \E r \in RunsOf({"ruf2"}) : Hello0(r).content = <<195, 169>> /\ r.ret = Ok(<<233>>)
    /\ \E r \in RunsOf({"main"}) : ReadableText(Hello0(r)) /\ r.ret = Unit

\* ---- C2 ----

\* C2 as stated: when hello.txt does not exist and the creation succeeds, main
\* leaves a new empty hello.txt, reads it, and returns Ok("") without
\* terminating the process.
C2_AsStated ==
    \A r \in RunsOf({"main"}) :
        (~Hello0(r).exists /\ Did(r, "create", "Ok")) =>
            /\ Hello1(r).exists /\ Hello1(r).content = <<>>
            /\ DidOp(r, "read")
            /\ r.ret = Ok(<<>>)

\* C2 amended: when hello.txt does not exist and the directory allows the
\* creation, main creates a new empty hello.txt and touches no other file; it
\* does not read the file and returns no Ok value: it returns unit when the new
\* file can be re-opened for reading, and otherwise the unwrap of the second
\* open panics with PermissionDenied.
C2_CreatesEmptyNoRead ==
    \A r \in RunsOf({"main"}) :
        (~Hello0(r).exists /\ dirWritable) =>
            /\ Hello1(r).exists /\ Hello1(r).content = <<>>
            /\ r.disk1[OtherTxt] = r.disk0[OtherTxt]
            /\ Did(r, "create", "Ok")
            /\ ~DidOp(r, "read")
            /\ r.ret = IF newFileReadable THEN Unit
                       ELSE Panicked("PermissionDenied", UnwrapMsg)

C2_Witness ==
    /\ newFileReadable
    /\ \E r \in RunsOf({"main"}) :
          ~Hello0(r).exists /\ Hello1(r).exists /\ r.ret = Unit /\ Len(r.opened) = 3

\* ---- C3 ----

\* C3: when hello.txt does not exist, read_username_from_file and
\* read_username_from_file2 return Err(NotFound), and at no point of the run
\* (nor after it) does the file system differ from the one they started with:
\* hello.txt still does not exist, no other file is created or modified.
C3_StrictNotFoundNoEffect ==
    /\ \A r \in RunsOf(Strict) :
          ~Hello0(r).exists =>
              /\ r.ret = Err("NotFound")
              /\ r.disk1 = r.disk0
              /\ ~Hello1(r).exists
    /\ (fn \in Strict /\ ~disk0[HelloTxt].exists) => disk = disk0

C3_Witness ==
    /\ \E r \in RunsOf({"ruf"}) : ~Hello0(r).exists /\ r.ret.kind = "NotFound"
    /\ \E r \in RunsOf({"ruf2"}) : ~Hello0(r).exists /\ r.ret.kind = "NotFound"

\* ---- C4 ----

\* C4: read_username_from_file and read_username_from_file2 never panic and
\* never call create; a failed open or a failed read ends the run with Err of
\* that very failure's kind (NotFound for a missing file, PermissionDenied for
\* an unreadable one, InvalidData for content that is not UTF-8), and an Err is
\* returned only for the failure of the last call made.
C4_StrictPropagates ==
    /\ fn \in Strict => pc # "panicked" /\ \A i \in 1..Len(ops) : ops[i].op # "create"
    /\ \A r \in RunsOf(Strict) :
          /\ r.ret.tag \in {"Ok", "Err"}
          /\ ~DidOp(r, "create")
          /\ LET last == r.ops[Len(r.ops)]
             IN  /\ last.res # "Ok" => r.ret = Err(last.res)
                 /\ r.ret.tag = "Err" => r.ret.kind = last.res
                 /\ \A i \in 1..(Len(r.ops) - 1) : r.ops[i].res = "Ok"
          /\ ~Hello0(r).exists => r.ret = Err("NotFound")
          /\ (Hello0(r).exists /\ ~Hello0(r).readable) => r.ret = Err("PermissionDenied")
          /\ (Hello0(r).exists /\ Hello0(r).readable /\ Hello0(r).content \notin TextBytes)
                => r.ret = Err("InvalidData") /\ r.ops[Len(r.ops)].op = "read"

C4_Witness ==
    /\ \E r \in RunsOf({"ruf"}) : r.ret = Err("InvalidData")
    /\ \E r \in RunsOf({"ruf2"}) : r.ret = Err("InvalidData") /\ Len(r.opened) = 1

\* ---- C5 ----

FirstOpenFailedOther(r) == r.ops[1].res \notin {"Ok", "NotFound"}
CreateFailed(r) ==
    /\ r.ops[1].res = "NotFound"
    /\ Len(r.ops) >= 2 /\ r.ops[2].op = "create" /\ r.ops[2].res # "Ok"
ReopenFailed(r) ==
    LET n == Len(r.ops)
    IN  n >= 2 /\ r.ops[n].op = "open" /\ r.ops[n].res # "Ok"

C6_AsStated ==
    \A r \in RunsOf({"main"}) :
        Len(r.opened) >= 1 => r.ret.tag \in {"Ok", "Err"}

\* C6 amended: once main holds a handle it reads nothing and returns neither
\* Ok nor Err: it re-opens hello.txt at lines 62 and 65, returns unit when both
\* re-opens succeed (as they do whenever the first open succeeded), and panics
\* through unwrap or expect, with the kind of the failed re-open, when one
\* fails (as after creating a file that the creation mode leaves unreadable).
C6_AfterHandle ==
    \A r \in RunsOf({"main"}) :
        Len(r.opened) >= 1 =>
            /\ ~DidOp(r, "read")
            /\ r.ret.tag \in {"Unit", "Panic"}
            /\ r.ret = Unit <=> Len(r.opened) = 3
            /\ r.ret.tag = "Panic" =>
                  /\ ReopenFailed(r)
                  /\ r.ret.msg \in {UnwrapMsg, ExpectMsg}
                  /\ r.ret.kind = r.ops[Len(r.ops)].res
            /\ r.ops[1].res = "Ok" => r.ret = Unit
            /\ (Did(r, "create", "Ok") /\ ~newFileReadable) =>
                  r.ret = Panicked("PermissionDenied", UnwrapMsg)

C6_Witness ==
    \E r \in RunsOf({"main"}) :
        /\ Len(r.opened) = 1
        /\ Did(r, "create", "Ok")
        /\ r.ret = Panicked("PermissionDenied", UnwrapMsg)

\* ---- C7 ----

\* C7: however a routine ends (Ok, Err after a failed open, Err after a failed
\* read, unit, or a panic), every handle it obtained has been released exactly
\* once and is no longer open, it released nothing it did not obtain, and at no
\* point is a handle released twice or owned by a binding without being open.
C7_HandlesReleased ==
    /\ \A r \in Runs :
          /\ \A fd \in Range(r.opened) : Count(r.closed, fd) = 1
          /\ Range(r.closed) \subseteq Range(r.opened)
          /\ r.left = {}
    /\ \A fd \in Range(closed) : Count(closed, fd) = 1
    /\ Range(frame) \subseteq DOMAIN openFiles
    /\ pc \in {"done", "panicked"} => DOMAIN openFiles = {} /\ frame = <<>>

C7_Witness ==
    /\ fn = "main" /\ pc = "panicked"
    /\ opened = <<1>> /\ closed = <<1>> /\ openFiles = <<>>
    /\ \E r \in RunsOf({"ruf"}) : r.ret.tag = "Err" /\ r.opened = <<>> /\ r.closed = <<>>

\* ---- C8 ----

NoChangeBetween(i, j) == \A k \in i..(j - 1) : hist[k + 1].disk0 = hist[k].disk1
CreatedThenAgain(i, j) ==
    /\ i < j
    /\ hist[i].fn = "main" /\ hist[j].fn = "main"
    /\ ~Hello0(hist[i]).exists /\ Did(hist[i], "create", "Ok")
    /\ NoChangeBetween(i, j)

\* C8 as stated: after a run of main has created hello.txt, a later run of
\* main returns Ok("") again, creates nothing and leaves the content as it is.
C8_AsStated ==
    \A i, j \in 1..Len(hist) :
        CreatedThenAgain(i, j) =>
            /\ hist[j].ret = Ok(<<>>)
            /\ ~DidOp(hist[j], "create")
            /\ hist[j].disk1 = hist[j].disk0

\* C8 amended: after a run of main has created hello.txt, a later run of main
\* (nothing else having changed the file system) creates nothing and leaves
\* the file empty and the file system unchanged; it returns no Ok(""): it
\* returns unit when the file is readable, and panics at line 44 with
\* PermissionDenied when the creation mode left it unreadable.
C8_SecondRunNoCreate ==
    \A i, j \in 1..Len(hist) :
        CreatedThenAgain(i, j) =>
            /\ ~DidOp(hist[j], "create")
            /\ hist[j].disk1 = hist[j].disk0
            /\ Hello1(hist[j]).exists /\ Hello1(hist[j]).content = <<>>
            /\ hist[j].ret = IF newFileReadable THEN Unit
                             ELSE Panicked("PermissionDenied", OpeningMsg)

C8_Witness ==
    \E i, j \in 1..Len(hist) :
        /\ CreatedThenAgain(i, j)
        /\ j = i + 2
        /\ hist[i].ret = Unit /\ hist[j].ret = Unit

\* ---- C9 ----

\* C9: a run of read_username_from_file and a run of read_username_from_file2
\* that start from the same file system end with the same value (the same
\* Ok(text) or an Err of the same kind), make the same file-system calls with
\* the same outcomes (open, then read only after a successful open), and leave
\* the same file system.
C9_VariantsAgree ==
    \A a \in RunsOf({"ruf"}), b \in RunsOf({"ruf2"}) :
        a.disk0 = b.disk0 =>
            /\ a.ret = b.ret
            /\ a.ops = b.ops
            /\ a.disk1 = b.disk1
            /\ a.ops[1].op = "open"
            /\ Len(a.ops) = (IF a.ops[1].res = "Ok" THEN 2 ELSE 1)
            /\ Len(a.ops) = 2 => a.ops[2].op = "read"

C9_Witness ==
    /\ \E a \in RunsOf({"ruf"}), b \in RunsOf({"ruf2"}) :
          a.disk0 = b.disk0 /\ a.ret = Ok(<<104, 104>>) /\ b.ret = Ok(<<104, 104>>)

\* ---- C10 ----

\* C10: in main, a create is made only right after an open that failed with
\* NotFound; and when hello.txt exists as main starts, main makes no create and
\* the file system stays, at every point of the run and after its return or
\* panic, exactly as it was when main started.
C10_CreateOnlyAfterNotFound ==
    /\ fn = "main" =>
          /\ \A i \in 1..Len(ops) :
                ops[i].op = "create" =>
                    i > 1 /\ ops[i - 1] = [op |-> "open", res |-> "NotFound"]
          /\ disk0[HelloTxt].exists =>
                disk = disk0 /\ \A i \in 1..Len(ops) : ops[i].op # "create"
    /\ \A r \in RunsOf({"main"}) :
          Hello0(r).exists => r.disk1 = r.disk0 /\ ~DidOp(r, "create")

C10_Witness ==
    /\ fn = "main" /\ pc = "panicked"
    /\ disk0[HelloTxt].exists /\ Len(disk0[HelloTxt].content) = 2
    /\ disk = disk0
    /\ \E r \in RunsOf({"main"}) : Hello0(r).exists /\ Len(r.ops) = 1

====
